---- MODULE Spec2Model ----
(***************************************************************************)
(* Conformal calibration engine of deel.puncc (api/calibration2.py):       *)
(* BaseCalibrator (fit / calibrate / norm-weights accessors) and the CV+   *)
(* aggregator CvPlusCalibrator, together with the prediction-set           *)
(* constructors and nonconformity scores they call.                        *)
(*                                                                         *)
(* Numbers.  Scores and predictions are integers.  +infinity (np.inf) is   *)
(* the value Inf, -infinity is -Inf; every finite value of the model is    *)
(* far below Inf.  A significance level alpha is the exact fraction        *)
(* <<num, den>>.  An optional value (Python None) is the empty tuple, a    *)
(* present value x is <<x>>.                                               *)
(***************************************************************************)
EXTENDS Integers, Sequences, FiniteSets, TLC

VARIABLES cal, lastFit, last, folds, cv, pc, targ, tres, tclean

vars == <<cal, lastFit, last, folds, cv, pc, targ, tres, tclean>>

----------------------------------------------------------------------------
(* Bounds of the explored inputs.                                          *)

MaxLen == 2
MaxVal == 2
MaxDen == 5
MaxWVecs == 2
NumFolds == 2
NumThreads == 2
MaxClasses == 3
ProbDen == 4
MantBits == 8

(* np.inf, as an integer above every finite value of the model.            *)
Inf == 1000000

----------------------------------------------------------------------------
(* Optional values and outcomes of a call.                                 *)

None == <<>>
Some(x) == <<x>>

Ok(v) == [kind |-> "ok", val |-> <<v>>]
Err(k) == [kind |-> k, val |-> <<>>]

----------------------------------------------------------------------------
(* Array helpers (numpy semantics on one-dimensional integer arrays).      *)

Abs(x) == IF x < 0 THEN -x ELSE x

SeqsUpTo(S, n) == UNION {[1..l -> S] : l \in 0..n}

Const(l, v) == [i \in 1..l |-> v]

(* a - b and a + b for a finite a and a possibly infinite b.               *)
ExtSub(a, b) == IF b = Inf THEN -Inf ELSE IF b = -Inf THEN Inf ELSE a - b
ExtAdd(a, b) == IF b = Inf THEN Inf ELSE IF b = -Inf THEN -Inf ELSE a + b

(* Indices of a in ascending order of value (stable, as np.argsort on     *)
(* distinct keys (value, index)).                                          *)
RECURSIVE ArgSortFrom(_, _)
ArgSortFrom(a, left) ==
  IF left = {} THEN <<>>
  ELSE LET m == CHOOSE i \in left :
                  \A j \in left : a[i] < a[j] \/ (a[i] = a[j] /\ i <= j)
       IN <<m>> \o ArgSortFrom(a, left \ {m})

ArgSort(a) == ArgSortFrom(a, DOMAIN a)

Sort(a) == LET p == ArgSort(a) IN [i \in 1..Len(a) |-> a[p[i]]]

RECURSIVE SumSeq(_)
SumSeq(s) == IF s = <<>> THEN 0 ELSE Head(s) + SumSeq(Tail(s))

(* Shape of the elementwise combination of arrays of lengths m and k       *)
(* (numpy broadcasting); -1 when the shapes do not broadcast.              *)
BroadcastLen(m, k) ==
  IF m = k THEN m ELSE IF m = 1 THEN k ELSE IF k = 1 THEN m ELSE -1

Pick(a, i) == IF Len(a) = 1 THEN a[1] ELSE a[i]

----------------------------------------------------------------------------
(* NonConformityScores.Regression.MAD: |y_pred - y_true|, elementwise.     *)

MAD(y_pred, y_true) ==
  [i \in 1..BroadcastLen(Len(y_pred), Len(y_true)) |->
     Abs(Pick(y_pred, i) - Pick(y_true, i))]

(* PredictionSets.Regression.CONSTANT_INTERVAL on a one-dimensional        *)
(* prediction array and a list of thresholds: (y_pred - tau, y_pred + tau) *)
(* elementwise, a ValueError when the two shapes do not broadcast.         *)
CONSTANT_INTERVAL(y_pred, scores_quantiles) ==
  LET n == BroadcastLen(Len(y_pred), Len(scores_quantiles))
  IN IF n < 0 THEN Err("ValueError")
     ELSE Ok(<<[i \in 1..n |-> ExtSub(Pick(y_pred, i), Pick(scores_quantiles, i))],
               [i \in 1..n |-> ExtAdd(Pick(y_pred, i), Pick(scores_quantiles, i))]>>)

(* The same constructor on a column of m predictions and a row of n        *)
(* residuals: two m x n matrices of candidate bounds (rows as sequences).  *)
ConstantInterval2D(y_pred, residuals) ==
  <<[i \in 1..Len(y_pred) |-> [j \in 1..Len(residuals) |-> y_pred[i] - residuals[j]]],
    [i \in 1..Len(y_pred) |-> [j \in 1..Len(residuals) |-> y_pred[i] + residuals[j]]]>>

----------------------------------------------------------------------------
(* Quantiles.  A level q is the fraction <<num, den>>.                     *)

(* np.quantile(a, q, method="inverted_cdf") on a non-empty array: the      *)
(* k-th smallest element, k = max(1, ceil(len(a) * q)).                    *)
InvertedCdfRank(n, q) ==
  LET k == (n * q[1] + q[2] - 1) \div q[2]
  IN IF k < 1 THEN 1 ELSE k

InvertedCdf(a, q) == Sort(a)[InvertedCdfRank(Len(a), q)]

(* The weighted empirical quantile: the first element, in ascending order, *)
(* at which the cumulated share of the weights reaches q.                  *)
WeightedQuantile(a, q, w) ==
  LET p == ArgSort(a)
      cum(i) == SumSeq([j \in 1..i |-> w[p[j]]])
      hit == {i \in 1..Len(a) : cum(i) * q[2] >= q[1] * SumSeq(w)}
  IN a[p[CHOOSE i \in hit : \A j \in hit : i <= j]]

(* utils.quantile(a, q, w=None).                                           *)
quantile(a, q, w) ==
  IF w = None THEN InvertedCdf(a, q) ELSE WeightedQuantile(a, q, w)

(* utils.check_alpha_calib(alpha, n): TRUE when alpha is feasible for a    *)
(* calibration set of size n, that is 1/(n+1) <= alpha < 1.                *)
check_alpha_calib(alpha, n) ==
  /\ alpha[1] * (n + 1) >= alpha[2]
  /\ alpha[1] < alpha[2]

----------------------------------------------------------------------------
(* BaseCalibrator.                                                         *)

(* __init__: no residuals, length 0, no cached weights.                    *)
BaseCalibratorInit ==
  [residuals |-> None, len_calib |-> 0, norm_weights |-> None]

(* fit: store the scores of the calibration set and their number.          *)
fit(self, y_true, y_pred) ==
  [self EXCEPT !.residuals = Some(MAD(y_pred, y_true)),
               !.len_calib = Len(MAD(y_pred, y_true))]

(* The level alpha instead of 1 - alpha.                                   *)
QuantileLevel_alpha(alpha) == alpha

(* The level handed to the quantile routine: 1 - alpha.                    *)
QuantileLevel(alpha) == <<alpha[2] - alpha[1], alpha[2]>>

(* The residuals with -infinity appended.                                  *)
lemma_residuals_negInf(residuals) == residuals \o <<-Inf>>

(* The residuals with one +infinity appended.                              *)
lemma_residuals(residuals) == residuals \o <<Inf>>

(* The weights the loop of calibrate runs over.                            *)
it_weights(weights) == IF weights = None THEN <<None>> ELSE weights[1]

(* The result of calibrate: the outcome, the calls made to collaborators   *)
(* in order, the thresholds handed to the constructor, and the calibrator  *)
(* afterwards.                                                             *)
Raised(kind, calls, self) ==
  [out |-> Err(kind), calls |-> calls, qs |-> <<>>, self |-> self]

(* The quantile calls of the loop over it_weights.                         *)
QuantileCalls(weights) == [i \in 1..Len(it_weights(weights)) |-> "quantile"]

(* A loop that keeps the augmented sample in self._residuals.              *)
calibrate_loop_storesLemma(self, alpha, y_pred, weights) ==
  LET itw == it_weights(weights)
      residuals_Qs ==
        [i \in 1..Len(itw) |->
           quantile(lemma_residuals(self.residuals[1]), QuantileLevel(alpha), itw[i])]
  IN [out |-> CONSTANT_INTERVAL(y_pred, residuals_Qs),
      calls |-> <<"check_alpha_calib">> \o QuantileCalls(weights) \o <<"pred_set_func">>,
      qs |-> residuals_Qs,
      self |-> [self EXCEPT !.residuals = Some(lemma_residuals(self.residuals[1]))]]

(* calibrate after its two checks: one threshold per weight vector (one    *)
(* pass when weights is absent), then the prediction-set constructor.      *)
calibrate_loop(self, alpha, y_pred, weights) ==
  LET itw == it_weights(weights)
      residuals_Qs ==
        [i \in 1..Len(itw) |->
           quantile(lemma_residuals(self.residuals[1]), QuantileLevel(alpha), itw[i])]
  IN [out |-> CONSTANT_INTERVAL(y_pred, residuals_Qs),
      calls |-> <<"check_alpha_calib">> \o QuantileCalls(weights) \o <<"pred_set_func">>,
      qs |-> residuals_Qs,
      self |-> self]

(* calibrate with the check of alpha ahead of the check of the residuals.  *)
calibrate_alphaFirst(self, alpha, y_pred, weights) ==
  IF ~check_alpha_calib(alpha, self.len_calib)
  THEN Raised("ValueError", <<"check_alpha_calib">>, self)
  ELSE IF self.residuals = None
  THEN Raised("RuntimeError", <<"check_alpha_calib">>, self)
  ELSE calibrate_loop(self, alpha, y_pred, weights)

(* calibrate with the check of alpha after the loop over the weights.      *)
calibrate_lateCheck(self, alpha, y_pred, weights) ==
  IF self.residuals = None
  THEN Raised("RuntimeError", <<>>, self)
  ELSE IF ~check_alpha_calib(alpha, self.len_calib)
  THEN Raised("ValueError", QuantileCalls(weights) \o <<"check_alpha_calib">>, self)
  ELSE calibrate_loop(self, alpha, y_pred, weights)

(* calibrate: RuntimeError before fit, ValueError on an infeasible alpha,   *)
(* otherwise the loop and the constructor.                                 *)
calibrate(self, alpha, y_pred, weights) ==
  IF self.residuals = None
  THEN Raised("RuntimeError", <<>>, self)
  ELSE IF ~check_alpha_calib(alpha, self.len_calib)
  THEN Raised("ValueError", <<"check_alpha_calib">>, self)
  ELSE calibrate_loop(self, alpha, y_pred, weights)

set_norm_weights(self, norm_weights) ==
  [self EXCEPT !.norm_weights = norm_weights]

get_norm_weights(self) == self.norm_weights

----------------------------------------------------------------------------
(* Inputs.                                                                 *)

(* Calibration sets handed to fit: true values and predictions of the same *)
(* length, and the calibration set whose scores are 1, 2, 3, 4, 5.         *)
Datasets ==
  {[y_true |-> t, y_pred |-> Const(Len(t), 1)] : t \in SeqsUpTo(0..MaxVal, MaxLen)}
  \cup {[y_true |-> <<1, 2, 3, 4, 5>>, y_pred |-> Const(5, 0)]}

(* Significance levels num/den in lowest terms, 0 and 1 included.         *)
RECURSIVE Gcd(_, _)
Gcd(a, b) == IF b = 0 THEN a ELSE Gcd(b, a % b)

Alphas == {ad \in (0..MaxDen) \X (1..MaxDen) : ad[1] <= ad[2] /\ Gcd(ad[1], ad[2]) = 1}

(* Predictions for the new examples.                                       *)
TestPreds == {<<10>>, <<10, 12>>}

(* Weight vectors over the n residuals and the added +infinity: uniform,   *)
(* or with the last (test point) slot carrying all but one unit of a       *)
(* doubled mass.                                                           *)
WeightVecs(n) == {Const(n + 1, 1), [i \in 1..(n + 1) |-> IF i = n + 1 THEN n + 2 ELSE 1]}

(* The weights argument of calibrate: absent, or a list of weight vectors. *)
WeightArgs(n) == {None} \cup {Some(ws) : ws \in SeqsUpTo(WeightVecs(n), MaxWVecs)}

(* The record of the most recent call: operation, arguments, outcome,      *)
(* collaborators called in order, thresholds handed to the constructor.    *)
Call(op, args, out, calls, qs) ==
  [op |-> op, args |-> args, out |-> out, calls |-> calls, qs |-> qs]

NoArgs == [none |-> TRUE]

(* No call in flight: the caller holds no unconsumed result.               *)
NoCall == Call("none", NoArgs, Ok(None), <<>>, <<>>)

----------------------------------------------------------------------------
(* Actions on one BaseCalibrator.                                          *)

Fit ==
  /\ last = NoCall
  /\ \E d \in Datasets :
       /\ cal' = fit(cal, d.y_true, d.y_pred)
       /\ lastFit' = Some(d)
       /\ last' = Call("fit", NoArgs, Ok(None), <<"nonconf_score_func">>, <<>>)
  /\ UNCHANGED <<folds, cv, pc, targ, tres, tclean>>

Calibrate ==
  /\ last = NoCall
  /\ \E alpha \in Alphas, y_pred \in TestPreds, weights \in WeightArgs(cal.len_calib) :
       LET r == calibrate(cal, alpha, y_pred, weights)
       IN /\ cal' = r.self
          /\ last' = Call("calibrate",
                          [alpha |-> alpha, y_pred |-> y_pred, weights |-> weights],
                          r.out, r.calls, r.qs)
  /\ UNCHANGED <<lastFit, folds, cv, pc, targ, tres, tclean>>

SetNormWeights ==
  /\ last = NoCall
  /\ \E w \in {None, Some(<<1>>)} :
       /\ cal' = set_norm_weights(cal, w)
       /\ last' = Call("set_norm_weights", NoArgs, Ok(None), <<>>, <<>>)
  /\ UNCHANGED <<lastFit, folds, cv, pc, targ, tres, tclean>>

GetNormWeights ==
  /\ last = NoCall
  /\ last' = Call("get_norm_weights", NoArgs, Ok(get_norm_weights(cal)), <<>>, <<>>)
  /\ UNCHANGED <<cal, lastFit, folds, cv, pc, targ, tres, tclean>>

(* The caller takes the result of the call it made.                        *)
Return ==
  /\ last # NoCall
  /\ last' = NoCall
  /\ UNCHANGED <<cal, lastFit, folds, cv, pc, targ, tres, tclean>>

Init ==
  /\ cal = BaseCalibratorInit
  /\ lastFit = None
  /\ last = NoCall
  /\ folds = [k \in 1..NumFolds |-> BaseCalibratorInit]
  /\ cv = None
  /\ pc = [t \in 1..NumThreads |-> "idle"]
  /\ targ = [t \in 1..NumThreads |-> NoArgs]
  /\ tres = [t \in 1..NumThreads |-> NoCall]
  /\ tclean = [t \in 1..NumThreads |-> TRUE]

Next == Fit \/ Calibrate \/ SetNormWeights \/ GetNormWeights \/ Return

Spec == Init /\ [][Next]_vars

----------------------------------------------------------------------------
(* CvPlusCalibrator.  The aggregator holds kfold_calibrators_dict, a       *)
(* mapping from fold identifiers to references to fold calibrators; the    *)
(* reference to the calibrator of fold k is k, and folds[k] is its state.  *)

FoldIds == 1..NumFolds

(* The keys of a mapping in iteration order.                               *)
RECURSIVE KeysFrom(_)
KeysFrom(S) ==
  IF S = {} THEN <<>>
  ELSE LET k == CHOOSE x \in S : \A y \in S : x <= y
       IN <<k>> \o KeysFrom(S \ {k})

Keys(d) == KeysFrom(DOMAIN d)

(* __init__: RuntimeError when the mapping is None or maps a fold to None, *)
(* otherwise the new aggregator.                                           *)
cv_init(kfold_calibrators) ==
  IF kfold_calibrators = None THEN Err("RuntimeError")
  ELSE IF \E k \in DOMAIN kfold_calibrators[1] : kfold_calibrators[1][k] = None
  THEN Err("RuntimeError")
  ELSE Ok([dict |-> kfold_calibrators[1]])

(* The result of an aggregator method: outcome, collaborators called, the  *)
(* pooled candidate bounds, and the fold calibrators afterwards.           *)
CvResult(out, calls, pooled, fs) ==
  [out |-> out, calls |-> calls, pooled |-> pooled, folds |-> fs]

(* fit that returns after looking at the first item of the mapping.        *)
cv_fit_firstOnly(self, fs) ==
  IF /\ DOMAIN self.dict # {}
     /\ fs[self.dict[Head(Keys(self.dict))][1]].residuals = None
  THEN CvResult(Err("RuntimeError"), <<>>, <<>>, fs)
  ELSE CvResult(Ok(None), <<>>, <<>>, fs)

(* fit: RuntimeError when a fold calibrator has no residuals.              *)
cv_fit(self, fs) ==
  IF \E k \in DOMAIN self.dict : fs[self.dict[k][1]].residuals = None
  THEN CvResult(Err("RuntimeError"), <<>>, <<>>, fs)
  ELSE CvResult(Ok(None), <<>>, <<>>, fs)

(* Column-wise concatenation of two matrices with the same rows.           *)
ConcatCols(a, b) == [i \in 1..Len(a) |-> a[i] \o b[i]]

Neg(row) == [j \in 1..Len(row) |-> -row[j]]

(* The level alpha itself in place of 1 - alpha.                           *)
CvLevel_alpha(alpha) == alpha

(* The level handed to np.quantile: 1 - alpha.                             *)
CvLevel(alpha) == <<alpha[2] - alpha[1], alpha[2]>>

(* The loop of calibrate over the items of kfold_predictors_dict, from the *)
(* folds still to visit and the bounds concatenated so far.                *)
RECURSIVE cv_loop(_, _, _, _, _)
cv_loop(self, fs, preds, todo, acc) ==
  IF todo = <<>> THEN [kind |-> "ok", acc |-> acc, calls |-> <<>>]
  ELSE LET k == Head(todo)
           y_pred == preds[k]
       IN IF y_pred = None
          THEN [kind |-> "RuntimeError", acc |-> acc, calls |-> <<"predict">>]
          ELSE IF k \notin DOMAIN self.dict
          THEN [kind |-> "KeyError", acc |-> acc, calls |-> <<"predict">>]
          ELSE IF fs[self.dict[k][1]].residuals = None
          THEN [kind |-> "TypeError", acc |-> acc, calls |-> <<"predict">>]
          ELSE LET ci == ConstantInterval2D(y_pred[1], fs[self.dict[k][1]].residuals[1])
                   nacc == IF acc = None THEN Some(ci)
                           ELSE Some(<<ConcatCols(acc[1][1], ci[1]),
                                       ConcatCols(acc[1][2], ci[2])>>)
                   rest == cv_loop(self, fs, preds, Tail(todo), nacc)
               IN [rest EXCEPT !.calls = <<"predict", "CONSTANT_INTERVAL">> \o @]

(* The lower bound as the plain quantile of the pooled lower candidates.   *)
LowerBound_plain(row, q) == InvertedCdf(row, q)

(* The aggregated lower bound of one test example: the quantile of the     *)
(* negated candidates, negated.                                            *)
LowerBound(row, q) == -InvertedCdf(Neg(row), q)

(* The aggregated upper bound of one test example.                         *)
UpperBound(row, q) == InvertedCdf(row, q)

(* calibrate that sorts each fold's residuals in place.                    *)
cv_calibrate_sortsInPlace(self, fs, preds, alpha) ==
  LET r == cv_loop(self, fs, preds, Keys(preds), None)
      sorted == [k \in DOMAIN fs |->
                   IF k \in DOMAIN preds /\ fs[k].residuals # None
                   THEN [fs[k] EXCEPT !.residuals = Some(Sort(fs[k].residuals[1]))]
                   ELSE fs[k]]
  IN IF r.kind # "ok" THEN CvResult(Err(r.kind), r.calls, <<>>, sorted)
     ELSE IF r.acc = None THEN CvResult(Err("RuntimeError"), r.calls, <<>>, sorted)
     ELSE LET lo == r.acc[1][1]
              hi == r.acc[1][2]
          IN CvResult(Ok(<<[i \in 1..Len(lo) |-> LowerBound(lo[i], CvLevel(alpha))],
                           [i \in 1..Len(hi) |-> UpperBound(hi[i], CvLevel(alpha))]>>),
                      r.calls \o <<"np.quantile", "np.quantile">>, r.acc[1], sorted)

(* calibrate: the loop, the sanity check, then the two quantiles per test  *)
(* example.                                                                *)
cv_calibrate(self, fs, preds, alpha) ==
  LET r == cv_loop(self, fs, preds, Keys(preds), None)
  IN IF r.kind # "ok" THEN CvResult(Err(r.kind), r.calls, <<>>, fs)
     ELSE IF r.acc = None THEN CvResult(Err("RuntimeError"), r.calls, <<>>, fs)
     ELSE LET lo == r.acc[1][1]
              hi == r.acc[1][2]
          IN CvResult(Ok(<<[i \in 1..Len(lo) |-> LowerBound(lo[i], CvLevel(alpha))],
                           [i \in 1..Len(hi) |-> UpperBound(hi[i], CvLevel(alpha))]>>),
                      r.calls \o <<"np.quantile", "np.quantile">>, r.acc[1], fs)

----------------------------------------------------------------------------
(* Inputs of the aggregator.                                               *)

(* Calibration sets of the folds: scores 1, 2, scores 3, 4, scores 4, 1.   *)
FoldDatasets ==
  {[y_true |-> <<1, 2>>, y_pred |-> <<0, 0>>],
   [y_true |-> <<3, 4>>, y_pred |-> <<0, 0>>],
   [y_true |-> <<4, 1>>, y_pred |-> <<0, 0>>]}

(* Mappings from some folds to a value of V.                               *)
PartialMaps(V) == UNION {[S -> V] : S \in SUBSET FoldIds}

(* The argument of the constructor: None, or a mapping from some folds to  *)
(* their calibrator or to None.                                            *)
KfoldArgs ==
  {None} \cup
  {Some(d) : d \in {m \in PartialMaps({0} \cup FoldIds) :
                      \A k \in DOMAIN m : m[k] \in {0, k}}}

RefOf(m) == [k \in DOMAIN m |-> IF m[k] = 0 THEN None ELSE Some(m[k])]

(* The test features X: one test example.                                  *)
CvTestX == {<<0>>}

(* What a fold predictor returns for X: nothing, or one value per example. *)
PredictOutputs(X) == {None} \cup {Some(Const(Len(X), v)) : v \in {10, 13}}

----------------------------------------------------------------------------
(* Actions of the aggregator and of its fold calibrators.                  *)

FoldFit ==
  /\ last = NoCall
  /\ \E k \in FoldIds, d \in FoldDatasets :
       /\ folds' = [folds EXCEPT ![k] = fit(folds[k], d.y_true, d.y_pred)]
       /\ last' = Call("fold_fit", [k |-> k], Ok(None), <<"nonconf_score_func">>, <<>>)
  /\ UNCHANGED <<cal, lastFit, cv, pc, targ, tres, tclean>>

CvInit ==
  /\ last = NoCall
  /\ \E a \in KfoldArgs :
       LET kf == IF a = None THEN None ELSE Some(RefOf(a[1]))
           out == cv_init(kf)
       IN /\ cv' = IF out.kind = "ok" THEN Some(out.val[1]) ELSE cv
          /\ last' = Call("cv_init", [kfold_calibrators |-> kf], out, <<>>, <<>>)
  /\ UNCHANGED <<cal, lastFit, folds, pc, targ, tres, tclean>>

CvFit ==
  /\ last = NoCall
  /\ cv # None
  /\ LET r == cv_fit(cv[1], folds)
     IN /\ folds' = r.folds
        /\ last' = Call("cv_fit", NoArgs, r.out, r.calls, r.pooled)
  /\ UNCHANGED <<cal, lastFit, cv, pc, targ, tres, tclean>>

CvCalibrate ==
  /\ last = NoCall
  /\ cv # None
  /\ \E X \in CvTestX, alpha \in Alphas :
       \E preds \in PartialMaps(PredictOutputs(X)) :
         LET r == cv_calibrate(cv[1], folds, preds, alpha)
         IN /\ folds' = r.folds
            /\ last' = Call("cv_calibrate", [X |-> X, preds |-> preds, alpha |-> alpha],
                            r.out, r.calls, r.pooled)
  /\ UNCHANGED <<cal, lastFit, cv, pc, targ, tres, tclean>>

NextCv == FoldFit \/ CvInit \/ CvFit \/ CvCalibrate \/ Return

SpecCv == Init /\ [][NextCv]_vars

----------------------------------------------------------------------------
(* Threads calling fit and calibrate on the one calibrator cal, with no    *)
(* lock (the class has none).  A call advances by the reads and writes of  *)
(* self._residuals and self._len_calib; pc[t] is the line thread t is at,  *)
(* targ[t] its arguments and locals, tres[t] its result, held until the    *)
(* caller takes it.  tclean[t] tells that no fit was in flight at any time *)
(* since thread t's call began, and targ[t].snap is then the calibrator as *)
(* it was when the call began (a call that overlaps a fit keeps none).     *)

Threads == 1..NumThreads

FitPcs == {"f360", "f361"}
CalibratePcs == {"c386", "c390", "c401"}

ConcDatasets ==
  {[y_true |-> <<0>>, y_pred |-> <<1>>],
   [y_true |-> <<3>>, y_pred |-> <<1>>]}

ConcAlphas == {<<1, 2>>, <<1, 5>>}

ConcWeightArgs(n) ==
  {None, Some(<<Const(n + 1, 1), [i \in 1..(n + 1) |-> IF i = n + 1 THEN n + 2 ELSE 1]>>)}

(* utils.quantile refuses weights whose length is not the sample's.        *)
QuantileRaises(a, w) == w # None /\ Len(w) # Len(a)

(* One pass of the loop that keeps the augmented sample in self._residuals *)
calibrate_quantile_step_storesLemma(self, alpha, w) ==
  LET a == lemma_residuals(self.residuals[1])
  IN [self |-> [self EXCEPT !.residuals = Some(a)],
      out |-> IF QuantileRaises(a, w) THEN Err("ValueError")
              ELSE Ok(quantile(a, QuantileLevel(alpha), w))]

(* One pass of the loop of calibrate: reads self._residuals, appends       *)
(* +infinity to a copy, computes one threshold.                            *)
calibrate_quantile_step(self, alpha, w) ==
  LET a == lemma_residuals(self.residuals[1])
  IN [self |-> self,
      out |-> IF QuantileRaises(a, w) THEN Err("ValueError")
              ELSE Ok(quantile(a, QuantileLevel(alpha), w))]

NoFitInFlight == \A u \in Threads : pc[u] \notin FitPcs

Finish(t, out) ==
  /\ pc' = [pc EXCEPT ![t] = "done"]
  /\ tres' = [tres EXCEPT ![t] = Call(targ[t].op, targ[t], out, <<>>, targ[t].qs)]

TCalibrateCall(t) ==
  /\ pc[t] = "idle"
  /\ \E alpha \in ConcAlphas, weights \in ConcWeightArgs(cal.len_calib) :
       targ' = [targ EXCEPT ![t] = [op |-> "calibrate", alpha |-> alpha,
                                    y_pred |-> <<10>>, weights |-> weights,
                                    snap |-> IF NoFitInFlight THEN cal
                                             ELSE BaseCalibratorInit,
                                    qs |-> <<>>]]
  /\ pc' = [pc EXCEPT ![t] = "c386"]
  /\ tclean' = [tclean EXCEPT ![t] = NoFitInFlight]
  /\ UNCHANGED <<cal, lastFit, last, folds, cv, tres>>

(* Line 386: the test of self._residuals.                                  *)
TCheckResiduals(t) ==
  /\ pc[t] = "c386"
  /\ IF cal.residuals = None
     THEN Finish(t, Err("RuntimeError"))
     ELSE pc' = [pc EXCEPT ![t] = "c390"] /\ tres' = tres
  /\ UNCHANGED <<cal, lastFit, last, folds, cv, targ, tclean>>

(* Line 390: the check of alpha against self._len_calib.                   *)
TCheckAlpha(t) ==
  /\ pc[t] = "c390"
  /\ IF ~check_alpha_calib(targ[t].alpha, cal.len_calib)
     THEN Finish(t, Err("ValueError"))
     ELSE pc' = [pc EXCEPT ![t] = "c401"] /\ tres' = tres
  /\ UNCHANGED <<cal, lastFit, last, folds, cv, targ, tclean>>

(* Lines 401-409: one pass of the loop.                                    *)
TQuantile(t) ==
  /\ pc[t] = "c401"
  /\ Len(targ[t].qs) < Len(it_weights(targ[t].weights))
  /\ LET w == it_weights(targ[t].weights)[Len(targ[t].qs) + 1]
         r == calibrate_quantile_step(cal, targ[t].alpha, w)
     IN /\ cal' = r.self
        /\ IF r.out.kind = "ok"
           THEN /\ targ' = [targ EXCEPT ![t].qs = @ \o <<r.out.val[1]>>]
                /\ UNCHANGED <<pc, tres>>
           ELSE /\ Finish(t, r.out)
                /\ targ' = targ
  /\ UNCHANGED <<lastFit, last, folds, cv, tclean>>

(* Line 410: the constructor and the return.                               *)
TConstruct(t) ==
  /\ pc[t] = "c401"
  /\ Len(targ[t].qs) = Len(it_weights(targ[t].weights))
  /\ Finish(t, CONSTANT_INTERVAL(targ[t].y_pred, targ[t].qs))
  /\ UNCHANGED <<cal, lastFit, last, folds, cv, targ, tclean>>

TFitCall(t) ==
  /\ pc[t] = "idle"
  /\ \E d \in ConcDatasets :
       targ' = [u \in Threads |->
                  IF u = t
                  THEN [op |-> "fit", y_true |-> d.y_true, y_pred |-> d.y_pred,
                        qs |-> <<>>]
                  ELSE IF pc[u] \in CalibratePcs
                  THEN [targ[u] EXCEPT !.snap = BaseCalibratorInit]
                  ELSE targ[u]]
  /\ pc' = [pc EXCEPT ![t] = "f360"]
  /\ tclean' = [u \in Threads |-> tclean[u] /\ pc[u] = "idle"]
  /\ UNCHANGED <<cal, lastFit, last, folds, cv, tres>>

(* Line 360: self._residuals = nonconf_score_func(y_pred, y_true).         *)
TFitStore(t) ==
  /\ pc[t] = "f360"
  /\ cal' = [cal EXCEPT !.residuals = Some(MAD(targ[t].y_pred, targ[t].y_true))]
  /\ pc' = [pc EXCEPT ![t] = "f361"]
  /\ UNCHANGED <<lastFit, last, folds, cv, targ, tres, tclean>>

(* Line 361: self._len_calib = len(self._residuals).                       *)
TFitLen(t) ==
  /\ pc[t] = "f361"
  /\ cal' = [cal EXCEPT !.len_calib = Len(cal.residuals[1])]
  /\ Finish(t, Ok(None))
  /\ UNCHANGED <<lastFit, last, folds, cv, targ, tclean>>

(* The caller of thread t takes the result.                                *)
TReturn(t) ==
  /\ pc[t] = "done"
  /\ pc' = [pc EXCEPT ![t] = "idle"]
  /\ targ' = [targ EXCEPT ![t] = NoArgs]
  /\ tres' = [tres EXCEPT ![t] = NoCall]
  /\ tclean' = [tclean EXCEPT ![t] = TRUE]
  /\ UNCHANGED <<cal, lastFit, last, folds, cv>>

NextConc ==
  \E t \in Threads :
    \/ TCalibrateCall(t)
    \/ TCheckResiduals(t)
    \/ TCheckAlpha(t)
    \/ TQuantile(t)
    \/ TConstruct(t)
    \/ TFitCall(t)
    \/ TFitStore(t)
    \/ TFitLen(t)
    \/ TReturn(t)

SpecConc == Init /\ [][NextConc]_vars

----------------------------------------------------------------------------
(* PredictionSets.Classification.RAPS_SET.  Probabilities, thresholds and  *)
(* the penalty lambd are integers counting units of 1/ProbDen, so that the *)
(* masses are added and compared exactly; a uniform draw u is the fraction *)
(* <<num, den>>.  A quotient of two floats is the record [num, den] with   *)
(* den >= 0; den = 0 is the result of a division by zero: +inf (num = 1),  *)
(* -inf (num = -1) or nan (num = 0).                                       *)

Max(a, b) == IF a >= b THEN a ELSE b

Sign(x) == IF x > 0 THEN 1 ELSE IF x < 0 THEN -1 ELSE 0

(* x / y for floats x and y >= 0.                                          *)
FloatDiv(x, y) == IF y = 0 THEN [num |-> Sign(x), den |-> 0] ELSE [num |-> x, den |-> y]

(* v <= u for a quotient v and a draw u; FALSE when v is nan.              *)
FloatLeq(v, u) ==
  IF v.den = 0 THEN v.num < 0 ELSE v.num * u[2] <= u[1] * v.den

(* np.argsort(-row): the classes (1-based here) by descending probability, *)
(* equal probabilities by ascending class.                                 *)
ClassRanking(row) == ArgSort([j \in 1..Len(row) |-> -row[j]])

(* a.cumsum() of a one-dimensional array.                                  *)
RECURSIVE CumSumFrom(_, _)
CumSumFrom(a, base) ==
  IF a = <<>> THEN <<>> ELSE <<base + Head(a)>> \o CumSumFrom(Tail(a), base + Head(a))

CumSum(a) == CumSumFrom(a, 0)

(* lambd * max(rank - k_reg, 0) for the 1-based rank.                      *)
RankPenalty(rank, lambd, k_reg) == lambd * Max(rank - k_reg, 0)

(* penal_cum_proba of one example, from its sorted cumulative mass.        *)
PenalCumProba(sorted_cum_mass, lambd, k_reg) ==
  [j \in 1..Len(sorted_cum_mass) |-> sorted_cum_mass[j] + RankPenalty(j, lambd, k_reg)]

(* L: one more than the number of ranks whose penalized cumulative mass is *)
(* at most tau.                                                            *)
CutoffRank(penal_cum_proba, tau) ==
  Cardinality({j \in DOMAIN penal_cum_proba : penal_cum_proba[j] <= tau}) + 1

(* proba_excess at the rank L (index L - 1 of the arrays), L <= C.         *)
ProbaExcess(sorted_proba, sorted_cum_mass, L, lambd, k_reg) ==
  -sorted_cum_mass[L] - RankPenalty(L, lambd, k_reg) + sorted_proba[L]

(* v at the rank L, L <= C.                                                *)
CutoffFraction(sorted_proba, sorted_cum_mass, tau, L, lambd, k_reg) ==
  IF L - 1 >= 0
  THEN FloatDiv(tau - ProbaExcess(sorted_proba, sorted_cum_mass, L, lambd, k_reg),
                sorted_proba[L])
  ELSE [num |-> 1, den |-> 0]

(* What _RAPS_SET computes for the example of one row: the rank L, whether *)
(* index L - 1 is outside the row, and within the row the fraction v and   *)
(* the prediction set (classes numbered from 0) for the draw u.            *)
RapsExample(lambd, k_reg, row, tau, u) ==
  LET idx_class_pred_ranking == ClassRanking(row)
      sorted_proba == [j \in 1..Len(row) |-> row[idx_class_pred_ranking[j]]]
      sorted_cum_mass == CumSum(sorted_proba)
      L == CutoffRank(PenalCumProba(sorted_cum_mass, lambd, k_reg), tau)
  IN IF L > Len(row)
     THEN [L |-> L, outside |-> TRUE, v |-> [num |-> 0, den |-> 0], set |-> <<>>]
     ELSE LET v == CutoffFraction(sorted_proba, sorted_cum_mass, tau, L, lambd, k_reg)
              cut_i == IF FloatLeq(v, u) THEN L - 1 ELSE L
          IN [L |-> L, outside |-> FALSE, v |-> v,
              set |-> IF cut_i < 0 THEN <<>>
                      ELSE [j \in 1..cut_i |-> idx_class_pred_ranking[j] - 1]]

RECURSIVE RapsExamples(_, _, _, _, _)
RapsExamples(lambd, k_reg, Y_pred, tau, u) ==
  IF Y_pred = <<>> THEN <<>>
  ELSE <<RapsExample(lambd, k_reg, Head(Y_pred), tau, Head(u))>>
       \o RapsExamples(lambd, k_reg, Tail(Y_pred), tau, Tail(u))

(* _RAPS_SET(Y_pred, tau) with the draws u: the outcome, the ranks L and   *)
(* the fractions v.  Reading index L - 1 = C of a row of C classes raises  *)
(* IndexError, after the whole list L was built and before any v.          *)
RAPS_SET(lambd, k_reg, Y_pred, tau, u) ==
  LET ex == RapsExamples(lambd, k_reg, Y_pred, tau, u)
      L == [i \in 1..Len(ex) |-> ex[i].L]
  IN IF \E i \in 1..Len(ex) : ex[i].outside
     THEN [out |-> Err("IndexError"), L |-> L, v |-> <<>>]
     ELSE [out |-> Ok(<<[i \in 1..Len(ex) |-> ex[i].set]>>), L |-> L,
           v |-> [i \in 1..Len(ex) |-> ex[i].v]]

----------------------------------------------------------------------------
(* CQR score and interval.  Y_pred is a matrix given by its rows, y_true   *)
(* an array given by its number of dimensions and its (flattened) values.  *)

Width(Y_pred) == Len(Y_pred[1])

Column(Y_pred, c) == [i \in 1..Len(Y_pred) |-> Y_pred[i][c]]

(* CQR_SCORE with np.minimum in place of np.maximum.                       *)
CQR_SCORE_minimum(Y_pred, y_true) ==
  IF Width(Y_pred) # 2 THEN Err("RuntimeError")
  ELSE IF y_true.ndim # 1 THEN Err("RuntimeError")
  ELSE LET q_lo == Column(Y_pred, 1)
           q_hi == Column(Y_pred, 2)
           n == BroadcastLen(Len(q_lo), Len(y_true.val))
       IN IF n < 0 THEN Err("ValueError")
          ELSE Ok([i \in 1..n |->
                     LET diff_lo == Pick(q_lo, i) - Pick(y_true.val, i)
                         diff_hi == Pick(y_true.val, i) - Pick(q_hi, i)
                     IN IF diff_lo <= diff_hi THEN diff_lo ELSE diff_hi])

(* NonConformityScores.Regression.CQR_SCORE on numpy arrays:               *)
(* max(q_lo - y_true, y_true - q_hi), elementwise.                         *)
CQR_SCORE(Y_pred, y_true) ==
  IF Width(Y_pred) # 2 THEN Err("RuntimeError")
  ELSE IF y_true.ndim # 1 THEN Err("RuntimeError")
  ELSE LET q_lo == Column(Y_pred, 1)
           q_hi == Column(Y_pred, 2)
           n == BroadcastLen(Len(q_lo), Len(y_true.val))
       IN IF n < 0 THEN Err("ValueError")
          ELSE Ok([i \in 1..n |->
                     Max(Pick(q_lo, i) - Pick(y_true.val, i),
                         Pick(y_true.val, i) - Pick(q_hi, i))])

(* PredictionSets.Regression.CQR_INTERVAL: (q_lo - tau, q_hi + tau).       *)
CQR_INTERVAL(Y_pred, scores_quantiles) ==
  IF Width(Y_pred) # 2 THEN Err("RuntimeError")
  ELSE LET q_lo == Column(Y_pred, 1)
           q_hi == Column(Y_pred, 2)
           n == BroadcastLen(Len(q_lo), Len(scores_quantiles))
       IN IF n < 0 THEN Err("ValueError")
          ELSE Ok(<<[i \in 1..n |-> ExtSub(Pick(q_lo, i), Pick(scores_quantiles, i))],
                    [i \in 1..n |-> ExtAdd(Pick(q_hi, i), Pick(scores_quantiles, i))]>>)

----------------------------------------------------------------------------
(* BaseCalibrator.barber_weights.  The matrix w_norm holds floats: a float *)
(* has MantBits significant bits and is kept as an integer number of units *)
(* of 2^-FracBits; a quotient is rounded to the nearest float, ties to the *)
(* even mantissa.  The calibration weights are small non-negative integers *)
(* and their sum is exact.                                                 *)

RECURSIVE Pow2(_)
Pow2(k) == IF k = 0 THEN 1 ELSE 2 * Pow2(k - 1)

FracBits == 2 * MantBits

(* The float 1.0, in units.                                                *)
One == Pow2(FracBits)

(* a / b rounded to the nearest integer, ties to even (a >= 0, b > 0).     *)
RoundHalfEven(a, b) ==
  LET q == a \div b
      r == a % b
  IN IF 2 * r < b THEN q
     ELSE IF 2 * r > b THEN q + 1
     ELSE IF q % 2 = 0 THEN q ELSE q + 1

(* The float nearest to x / y, in units, for a float x >= 0 given in units *)
(* and an integer y > 0: the spacing of the floats around the quotient is  *)
(* the least power of two that leaves a mantissa below 2^MantBits.         *)
FloatQuotient(x, y) ==
  LET e == CHOOSE k \in 0..(MantBits + 4) :
             /\ x < y * Pow2(k) * Pow2(MantBits)
             /\ (k = 0 \/ x >= y * Pow2(k - 1) * Pow2(MantBits))
  IN Pow2(e) * RoundHalfEven(x, y * Pow2(e))

(* barber_weights that leaves the slot of the test point at zero.          *)
barber_weights_noTestMass(X, weights_calib) ==
  LET calib_size == Len(weights_calib)
      sum_w_calib == SumSeq(weights_calib)
  IN [i \in 1..Len(X) |->
        [j \in 1..(calib_size + 1) |->
           IF j <= calib_size
           THEN FloatQuotient(weights_calib[j] * One, sum_w_calib + 1)
           ELSE 0]]

(* barber_weights(X=X, weights_calib=weights_calib): the rows of w_norm.   *)
barber_weights(X, weights_calib) ==
  LET calib_size == Len(weights_calib)
      sum_w_calib == SumSeq(weights_calib)
  IN [i \in 1..Len(X) |->
        [j \in 1..(calib_size + 1) |->
           IF j <= calib_size
           THEN FloatQuotient(weights_calib[j] * One, sum_w_calib + 1)
           ELSE FloatQuotient(One, sum_w_calib + 1)]]

----------------------------------------------------------------------------
(* Inputs of the scores and of the set constructors.                       *)

(* Probability vectors over C classes: masses in units of 1/ProbDen that   *)
(* sum to 1.                                                               *)
ProbVecs(C) == {r \in [1..C -> 0..ProbDen] : SumSeq(r) = ProbDen}

Reverse(r) == [j \in 1..Len(r) |-> r[Len(r) + 1 - j]]

(* Probability matrices of one example, or of two examples over the same   *)
(* classes.                                                                *)
ProbMatrices ==
  UNION {{<<r>>, <<r, Reverse(r)>>} : r \in UNION {ProbVecs(C) : C \in 1..MaxClasses}}

(* Thresholds: below 0, within [0, 1], above 1, and np.inf (the quantile   *)
(* calibrate yields when the level reaches the lemma's extra score).       *)
Taus == (-1..(ProbDen + 1)) \cup {Inf}

Lambdas == {0, 1}

KRegs == {1, 2}

(* Draws of np.random.uniform: one of a few values of [0, 1) per example.  *)
Uniforms == {<<0, 1>>, <<1, 2>>, <<9, 10>>}

(* Quantile predictions: one row (q_lo, q_hi), crossed pairs included, or  *)
(* such a row above an uncrossed or a crossed one, and two matrices        *)
(* without exactly two columns.                                            *)
QuantilePreds ==
  UNION {{<<p>>, <<p, <<0, 1>> >>, <<p, <<1, 0>> >>} : p \in (0..MaxVal) \X (0..MaxVal)}
  \cup {<< <<0>> >>, << <<0, 1, 2>> >>}

(* True values: one-dimensional arrays, and one column matrix.             *)
TrueValues ==
  {[ndim |-> 1, val |-> t] : t \in SeqsUpTo(0..MaxVal, MaxLen) \ {<<>>}}
  \cup {[ndim |-> 2, val |-> <<0>>]}

(* Thresholds handed to CQR_INTERVAL: one, or one per example of a pair.   *)
CqrThresholds == UNION {{<<t>>, <<t, t>>} : t \in (0..MaxVal) \cup {Inf}}

(* Feature arrays, by their values only as far as their length matters.    *)
FeatureArrays == {Const(m, 0) : m \in 0..MaxLen}

CalibWeights == SeqsUpTo(0..MaxVal, MaxLen)

----------------------------------------------------------------------------
(* Calls of the scores and of the set constructors.                        *)

RapsSet ==
  /\ last = NoCall
  /\ \E lambd \in Lambdas, k_reg \in KRegs, Y_pred \in ProbMatrices, tau \in Taus :
       \E u \in [1..Len(Y_pred) -> Uniforms] :
         LET r == RAPS_SET(lambd, k_reg, Y_pred, tau, u)
         IN last' = Call("RAPS_SET",
                         [lambd |-> lambd, k_reg |-> k_reg, Y_pred |-> Y_pred,
                          tau |-> tau, u |-> u],
                         r.out, <<>>, [L |-> r.L, v |-> r.v])
  /\ UNCHANGED <<cal, lastFit, folds, cv, pc, targ, tres, tclean>>

CqrScore ==
  /\ last = NoCall
  /\ \E Y_pred \in QuantilePreds, y_true \in TrueValues :
       last' = Call("CQR_SCORE", [Y_pred |-> Y_pred, y_true |-> y_true],
                    CQR_SCORE(Y_pred, y_true), <<>>, <<>>)
  /\ UNCHANGED <<cal, lastFit, folds, cv, pc, targ, tres, tclean>>

CqrInterval ==
  /\ last = NoCall
  /\ \E Y_pred \in QuantilePreds, sq \in CqrThresholds :
       last' = Call("CQR_INTERVAL", [Y_pred |-> Y_pred, scores_quantiles |-> sq],
                    CQR_INTERVAL(Y_pred, sq), <<>>, <<>>)
  /\ UNCHANGED <<cal, lastFit, folds, cv, pc, targ, tres, tclean>>

BarberWeights ==
  /\ last = NoCall
  /\ \E X \in FeatureArrays, weights_calib \in CalibWeights :
       last' = Call("barber_weights", [X |-> X, weights_calib |-> weights_calib],
                    Ok(barber_weights(X, weights_calib)), <<>>, <<>>)
  /\ UNCHANGED <<cal, lastFit, folds, cv, pc, targ, tres, tclean>>

NextFn == RapsSet \/ CqrScore \/ CqrInterval \/ BarberWeights \/ Return

SpecFn == Init /\ [][NextFn]_vars

----------------------------------------------------------------------------
(* Properties of BaseCalibrator, checked under Spec.                       *)

Range(s) == {s[i] : i \in DOMAIN s}

CalibrateReturned == last.op = "calibrate"

(* The k-th smallest element of s, by counting.                            *)
KthSmallest(s, k) ==
  CHOOSE x \in Range(s) :
    /\ Cardinality({i \in DOMAIN s : s[i] < x}) < k
    /\ Cardinality({i \in DOMAIN s : s[i] <= x}) >= k

(* ceil(m * (1 - alpha)): the least integer k with k >= m * (1 - alpha).   *)
CeilComplement(m, alpha) ==
  CHOOSE k \in 0..m :
    /\ k * alpha[2] >= m * (alpha[2] - alpha[1])
    /\ (k - 1) * alpha[2] < m * (alpha[2] - alpha[1])

(* C1: calibrate on a calibrator that was never fitted raises the          *)
(* sequencing error (RuntimeError) whatever alpha, y_pred and weights are, *)
(* calls neither the quantile routine nor the constructor (nor anything    *)
(* else), and leaves the calibrator unfit.                                 *)
C1_UnfitCalibrateFails ==
  (CalibrateReturned /\ lastFit = None) =>
     /\ last.out = Err("RuntimeError")
     /\ last.calls = <<>>
     /\ cal.residuals = None
     /\ cal.len_calib = 0

C1_Witness ==
  /\ CalibrateReturned
  /\ lastFit = None
  /\ last.out.kind = "RuntimeError"
  /\ ~check_alpha_calib(last.args.alpha, cal.len_calib)
  /\ last.args.weights # None
  /\ Len(last.args.weights[1]) = 2

(* C3: on a fitted calibrator an infeasible alpha makes calibrate fail     *)
(* with the feasibility error after the check alone: no quantile is        *)
(* computed and the constructor is not called, whatever weights is.        *)
C3_InfeasibleAlphaFailsFirst ==
  (/\ CalibrateReturned
   /\ cal.residuals # None
   /\ ~check_alpha_calib(last.args.alpha, cal.len_calib)) =>
     /\ last.out = Err("ValueError")
     /\ last.calls = <<"check_alpha_calib">>
     /\ last.qs = <<>>

C3_Witness ==
  /\ CalibrateReturned
  /\ cal.residuals # None
  /\ cal.len_calib = 2
  /\ ~check_alpha_calib(last.args.alpha, cal.len_calib)
  /\ last.args.alpha[1] > 0
  /\ last.args.weights # None
  /\ Len(last.args.weights[1]) = 2
  /\ last.out.kind = "ValueError"

(* C4: in every state the stored residuals are the scores of the most      *)
(* recent fit (absent before any fit) and the stored length is their       *)
(* number (0 before any fit), whatever calls were made since.              *)
C4_ResidualsAreLastFit ==
  IF lastFit = None
  THEN cal.residuals = None /\ cal.len_calib = 0
  ELSE /\ cal.residuals = Some(MAD(lastFit[1].y_pred, lastFit[1].y_true))
       /\ cal.len_calib = Len(MAD(lastFit[1].y_pred, lastFit[1].y_true))

C4_Witness ==
  /\ CalibrateReturned
  /\ last.out.kind = "ok"
  /\ lastFit # None
  /\ lastFit[1].y_true = <<0, 2>>
  /\ cal.residuals = Some(<<1, 1>>)
  /\ cal.norm_weights # None

(* C9: with a feasible alpha and no weights, calibrate hands the           *)
(* constructor one threshold, the ceil((n+1)(1-alpha))-th smallest of the  *)
(* residuals with +infinity appended, and returns the constructor's        *)
(* result; residuals 1..5 with alpha = 1/5 give threshold 5 and, for the   *)
(* prediction 10, the interval (5, 15).                                    *)
C9_UnweightedThreshold ==
  (/\ CalibrateReturned
   /\ cal.residuals # None
   /\ check_alpha_calib(last.args.alpha, cal.len_calib)
   /\ last.args.weights = None) =>
     LET aug == cal.residuals[1] \o <<Inf>>
         tau == KthSmallest(aug, CeilComplement(Len(aug), last.args.alpha))
     IN /\ last.qs = <<tau>>
        /\ last.calls = <<"check_alpha_calib", "quantile", "pred_set_func">>
        /\ last.out = Ok(<<[i \in DOMAIN last.args.y_pred |-> last.args.y_pred[i] - tau],
                           [i \in DOMAIN last.args.y_pred |-> last.args.y_pred[i] + tau]>>)
        /\ (cal.residuals[1] = <<1, 2, 3, 4, 5>> /\ last.args.alpha = <<1, 5>>) =>
              /\ tau = 5
              /\ last.args.y_pred = <<10>> => last.out = Ok(<< <<5>>, <<15>> >>)

C9_Witness ==
  /\ CalibrateReturned
  /\ cal.residuals = Some(<<1, 2, 3, 4, 5>>)
  /\ last.args.alpha = <<1, 5>>
  /\ last.args.weights = None
  /\ last.args.y_pred = <<10>>
  /\ last.qs = <<5>>
  /\ last.out = Ok(<< <<5>>, <<15>> >>)

(* C10: with n >= 1 residuals, a feasible alpha and no weights, the        *)
(* fraction of the residuals strictly above the threshold calibrate        *)
(* computed is at most alpha * n: count / n <= alpha * n.                  *)
C10_CoverageBound ==
  (/\ CalibrateReturned
   /\ cal.residuals # None
   /\ cal.len_calib >= 1
   /\ check_alpha_calib(last.args.alpha, cal.len_calib)
   /\ last.args.weights = None) =>
     LET n == cal.len_calib
         tau == last.qs[1]
         above == Cardinality({i \in 1..n : cal.residuals[1][i] > tau})
     IN above * last.args.alpha[2] <= last.args.alpha[1] * n * n

C10_Witness ==
  /\ CalibrateReturned
  /\ cal.residuals = Some(<<0, 1>>)
  /\ last.args.alpha = <<1, 3>>
  /\ last.args.weights = None
  /\ last.qs = <<1>>
  /\ last.out.kind = "ok"

----------------------------------------------------------------------------
(* Properties of CvPlusCalibrator, checked under SpecCv.                   *)

CvOps == {"cv_init", "cv_fit", "cv_calibrate"}

(* C2: constructing the aggregator fails exactly when the mapping is None, *)
(* has no folds, or maps some fold to None.                                *)
C2_ConstructionFailsIffBadMapping ==
  last.op = "cv_init" =>
    LET kf == last.args.kfold_calibrators
    IN (last.out.kind # "ok") <=>
         \/ kf = None
         \/ DOMAIN kf[1] = {}
         \/ \E k \in DOMAIN kf[1] : kf[1][k] = None

(* C5: no operation of the aggregator changes the state of a fold          *)
(* calibrator (residuals, length, cached weights).                         *)
C5_AggregatorLeavesFolds ==
  [][last'.op \in CvOps => folds' = folds]_vars

C5_Witness ==
  /\ last.op = "cv_calibrate"
  /\ last.out.kind = "ok"
  /\ DOMAIN last.args.preds = FoldIds
  /\ folds[1].residuals = Some(<<4, 1>>)

(* C6: fit of the aggregator raises the precondition error exactly when a  *)
(* fold calibrator of the mapping has no residuals, returns nothing        *)
(* otherwise, and calls no score function either way.                      *)
C6_CvFitIsPreconditionCheck ==
  last.op = "cv_fit" =>
    /\ last.out = IF \E k \in DOMAIN cv[1].dict : folds[k].residuals = None
                  THEN Err("RuntimeError") ELSE Ok(None)
    /\ last.calls = <<>>

C6_Witness ==
  /\ last.op = "cv_fit"
  /\ DOMAIN cv[1].dict = {1, 2}
  /\ folds[1].residuals # None
  /\ folds[2].residuals = None
  /\ last.out = Err("RuntimeError")

(* The scenario of C8: folds 1 and 2 hold residuals 1, 2 and 3, 4, both    *)
(* are in the mapping, their predictors (and no other) predict 10 for the  *)
(* one test example, alpha = 1/2.                                          *)
C8_Scenario ==
  /\ last.op = "cv_calibrate"
  /\ {1, 2} \subseteq DOMAIN cv[1].dict
  /\ folds[1].residuals = Some(<<1, 2>>)
  /\ folds[2].residuals = Some(<<3, 4>>)
  /\ last.args.preds = [k \in {1, 2} |-> Some(<<10>>)]
  /\ last.args.alpha = <<1, 2>>

(* C8 as claimed: the pooled candidates are {9,8,7,6} and {11,12,13,14},   *)
(* and each returned bound is the 0.5-quantile (inverted CDF) of its own   *)
(* pooled candidates.                                                      *)
C8_BothBoundsPlainQuantile ==
  C8_Scenario =>
    LET lo == last.qs[1][1]
        hi == last.qs[2][1]
        k == CeilComplement(4, last.args.alpha)
    IN /\ Range(lo) = {9, 8, 7, 6} /\ Len(lo) = 4
       /\ Range(hi) = {11, 12, 13, 14} /\ Len(hi) = 4
       /\ last.out = Ok(<< <<KthSmallest(lo, k)>>, <<KthSmallest(hi, k)>> >>)

(* C8 as amended: same candidates; y_hi is the 0.5-quantile of the upper   *)
(* candidates (12) and y_lo is the negated 0.5-quantile of the negated     *)
(* lower candidates (8).                                                   *)
C8_CvPlusScenario ==
  C8_Scenario =>
    LET lo == last.qs[1][1]
        hi == last.qs[2][1]
        k == CeilComplement(4, last.args.alpha)
    IN /\ Range(lo) = {9, 8, 7, 6} /\ Len(lo) = 4
       /\ Range(hi) = {11, 12, 13, 14} /\ Len(hi) = 4
       /\ last.out = Ok(<< <<-KthSmallest(Neg(lo), k)>>, <<KthSmallest(hi, k)>> >>)
       /\ last.out = Ok(<< <<8>>, <<12>> >>)

C8_Witness ==
  /\ C8_Scenario
  /\ last.out = Ok(<< <<8>>, <<12>> >>)

----------------------------------------------------------------------------
(* Properties of concurrent calls, checked under SpecConc.                 *)

(* C7: a calibrate call on a fitted calibrator, during which no fit was in *)
(* flight, returns what calibrate returns when run alone on the calibrator *)
(* as it was when the call began, whatever other calibrate calls were      *)
(* interleaved with it, and the residuals and the length are as they were. *)
C7_ConcurrentCalibrateAsAlone ==
  \A t \in Threads :
    (/\ pc[t] = "done"
     /\ targ[t].op = "calibrate"
     /\ tclean[t]
     /\ targ[t].snap.residuals # None) =>
       LET alone == calibrate(targ[t].snap, targ[t].alpha, targ[t].y_pred,
                              targ[t].weights)
       IN /\ tres[t].out = alone.out
          /\ (alone.out.kind = "ok" => tres[t].qs = alone.qs)
          /\ cal.residuals = targ[t].snap.residuals
          /\ cal.len_calib = targ[t].snap.len_calib

C7_Witness ==
  /\ \A t \in {1, 2} :
       /\ pc[t] = "done"
       /\ targ[t].op = "calibrate"
       /\ tclean[t]
       /\ tres[t].out.kind = "ok"
  /\ targ[1].weights # None
  /\ targ[2].weights = None
  /\ cal.residuals = Some(<<2>>)

----------------------------------------------------------------------------
(* Ordering of the aggregated bounds, checked under SpecCv.                *)

(* A successful aggregation at a level alpha < 1/2.                        *)
C15_Case ==
  /\ last.op = "cv_calibrate"
  /\ last.out.kind = "ok"
  /\ 2 * last.args.alpha[1] < last.args.alpha[2]
  /\ \A f \in FoldIds : folds[f].residuals # None =>
        \A j \in DOMAIN folds[f].residuals[1] : folds[f].residuals[1][j] >= 0

(* C15: when the aggregator calibrates over at least one fold with         *)
(* non-negative residuals and 0 <= alpha < 1/2, every test example gets    *)
(* y_lo <= y_hi whatever the fold predictions are; with N pooled residuals *)
(* and k = ceil(N(1-alpha)), y_lo is the (N-k+1)-th smallest pooled lower  *)
(* candidate and y_hi the k-th smallest pooled upper candidate.            *)
C15_BoundsOrdered ==
  C15_Case =>
    LET lo == last.qs[1]
        hi == last.qs[2]
        y_lo == last.out.val[1][1]
        y_hi == last.out.val[1][2]
    IN \A i \in DOMAIN lo :
         LET N == Len(lo[i])
             k == CeilComplement(N, last.args.alpha)
         IN /\ N >= 1 /\ Len(hi[i]) = N
            /\ y_lo[i] <= y_hi[i]
            /\ y_lo[i] = KthSmallest(lo[i], N - k + 1)
            /\ y_hi[i] = KthSmallest(hi[i], k)

(* Two folds with different predictions, pooled at alpha = 1/3.            *)
C15_Witness ==
  /\ C15_Case
  /\ last.args.alpha = <<1, 3>>
  /\ DOMAIN last.args.preds = {1, 2}
  /\ last.args.preds[1] = Some(<<13>>)
  /\ last.args.preds[2] = Some(<<10>>)
  /\ Len(last.qs[1][1]) = 4
  /\ last.out.val[1][1][1] < last.out.val[1][2][1]

----------------------------------------------------------------------------
(* Properties of RAPS_SET, checked under SpecFn.                           *)

RapsReturned == last.op = "RAPS_SET" /\ last.out.kind = "ok"

(* C11: whenever RAPS_SET computes the cutoff fraction v of an example     *)
(* (L - 1 >= 0), for probabilities summing to 1, lambd >= 0 and            *)
(* k_reg >= 1, v lies in [0, 1].  The claim is made for every threshold    *)
(* tau; it is stated here for the thresholds of [0, 1] alone.              *)
C11_CutoffFractionInUnitInterval ==
  (RapsReturned /\ last.args.tau \in 0..ProbDen) =>
    \A i \in DOMAIN last.qs.v :
      last.qs.L[i] - 1 >= 0 =>
        /\ last.qs.v[i].den > 0
        /\ 0 <= last.qs.v[i].num
        /\ last.qs.v[i].num <= last.qs.v[i].den

(* C14: for every probability matrix over C classes, every tau and         *)
(* lambd >= 0, RAPS_SET returns one set per example without failing; each  *)
(* L is in 1..C and is the least rank whose penalized cumulative mass      *)
(* exceeds tau, and the set is the first L - 1 classes of the descending   *)
(* ranking when v <= u, the first L classes otherwise.                     *)
C14_RapsSetTotal ==
  last.op = "RAPS_SET" =>
    /\ last.out.kind = "ok"
    /\ LET a == last.args
           sets == last.out.val[1][1]
       IN /\ Len(sets) = Len(a.Y_pred)
          /\ \A i \in DOMAIN a.Y_pred :
               LET C == Len(a.Y_pred[i])
                   L == last.qs.L[i]
                   ranking == ClassRanking(a.Y_pred[i])
                   mass == PenalCumProba(CumSum([j \in 1..C |-> a.Y_pred[i][ranking[j]]]),
                                         a.lambd, a.k_reg)
                   cut == IF FloatLeq(last.qs.v[i], a.u[i]) THEN L - 1 ELSE L
               IN /\ 1 <= L /\ L <= C
                  /\ mass[L] > a.tau
                  /\ \A j \in 1..(L - 1) : mass[j] <= a.tau
                  /\ cut >= 0
                  /\ sets[i] = [j \in 1..cut |-> ranking[j] - 1]

----------------------------------------------------------------------------
(* Properties of the CQR score and interval, checked under SpecFn.         *)

CqrScored == last.op = "CQR_SCORE" /\ last.out.kind = "ok"

(* The true value of example i lies on the interval CQR_INTERVAL builds    *)
(* from the same predictions with tau = 0.                                 *)
OnBoundaryAtZero(i) ==
  LET iv == CQR_INTERVAL(last.args.Y_pred, <<0>>).val[1]
  IN Pick(last.args.y_true.val, i) \in {Pick(iv[1], i), Pick(iv[2], i)}

(* C12 as claimed: for every pair (q_lo, q_hi), a true value equal to q_lo *)
(* or to q_hi has the score 0.                                             *)
C12_ScoreZeroAtEitherQuantile ==
  CqrScored =>
    \A i \in DOMAIN last.out.val[1] :
      OnBoundaryAtZero(i) => last.out.val[1][i] = 0

(* C12 as amended: for a pair with q_lo <= q_hi, a true value equal to     *)
(* q_lo or to q_hi has the score 0; for a crossed pair (q_lo > q_hi) it    *)
(* has the score q_lo - q_hi > 0.                                          *)
C12_ScoreZeroAtUncrossedQuantile ==
  CqrScored =>
    \A i \in DOMAIN last.out.val[1] :
      LET q_lo == Pick(Column(last.args.Y_pred, 1), i)
          q_hi == Pick(Column(last.args.Y_pred, 2), i)
      IN OnBoundaryAtZero(i) =>
           last.out.val[1][i] = IF q_lo <= q_hi THEN 0 ELSE q_lo - q_hi

(* One true value at the lower and one at the upper quantile of uncrossed  *)
(* pairs.                                                                  *)
C12_Witness ==
  /\ CqrScored
  /\ last.args.Y_pred = << <<0, 2>>, <<0, 1>> >>
  /\ last.args.y_true.val = <<0, 1>>
  /\ last.out.val[1] = <<0, 0>>

----------------------------------------------------------------------------
(* Properties of barber_weights, checked under SpecFn.                     *)

BarberReturned == last.op = "barber_weights"

(* The shape, the equal rows and the entries of w_norm: entry j is         *)
(* w_j / (sum + 1) and the last one 1 / (sum + 1), each within the         *)
(* relative rounding error 2^-MantBits and exact when the quotient is a    *)
(* float.                                                                  *)
BarberLayout ==
  LET w == last.args.weights_calib
      n == Len(w)
      S == SumSeq(w)
      m == last.out.val[1]
  IN /\ Len(m) = Len(last.args.X)
     /\ \A i \in DOMAIN m :
          /\ Len(m[i]) = n + 1
          /\ m[i] = m[1]
          /\ \A j \in 1..(n + 1) :
               LET wj == IF j <= n THEN w[j] ELSE 1
               IN /\ Abs(m[i][j] * (S + 1) - wj * One) * Pow2(MantBits) <= wj * One
                  /\ (wj * One) % (S + 1) = 0 => m[i][j] * (S + 1) = wj * One

====
